---- MODULE Spec2Model ----
(***************************************************************************)
(* Model of the Level 3 agent (level3/full_agent.py) with its two tools    *)
(* (level2/calculator_tool.py, level3/translator_tool.py).                 *)
(*                                                                         *)
(* Text is kept as text: queries, captured parameters, descriptions and    *)
(* response lines are strings, and the regular expressions of the source   *)
(* are transcribed element by element and run by a backtracking matcher    *)
(* with the priorities of Python's re module (leftmost match, greedy and   *)
(* lazy repetition, ordered alternation).  Python's None is the empty      *)
(* sequence <<>> and a present value v is <<v>> wherever a field is        *)
(* optional (result, error); dicts are records.                            *)
(***************************************************************************)
EXTENDS Integers, Sequences, FiniteSets, TLC

(***************************************************************************)
(* Characters and strings                                                  *)
(***************************************************************************)
UpperChars == "ABCDEFGHIJKLMNOPQRSTUVWXYZ"
LowerChars == "abcdefghijklmnopqrstuvwxyz"
Digits == {"0", "1", "2", "3", "4", "5", "6", "7", "8", "9"}
Spaces == {" ", "\t", "\n", "\r", "\f"}
Quotes == {"'", "\""}
OpChars == {"+", "-", "*", "/"}
Letters == {SubSeq(UpperChars, k, k) : k \in 1..26} \cup {SubSeq(LowerChars, k, k) : k \in 1..26}
WordChars == Letters \cup Digits \cup {"_"}

CharAt(s, p) == SubSeq(s, p, p)

\* str.lower() on one character
LowerChar(c) ==
    IF \E k \in 1..26 : CharAt(UpperChars, k) = c
    THEN CharAt(LowerChars, CHOOSE k \in 1..26 : CharAt(UpperChars, k) = c)
    ELSE c

RECURSIVE lower(_)
\* str.lower()
lower(s) == IF Len(s) = 0 THEN "" ELSE LowerChar(CharAt(s, 1)) \o lower(Tail(s))

RECURSIVE LStrip(_)
LStrip(s) == IF Len(s) > 0 /\ CharAt(s, 1) \in Spaces THEN LStrip(Tail(s)) ELSE s

RECURSIVE RStrip(_)
RStrip(s) ==
    IF Len(s) > 0 /\ CharAt(s, Len(s)) \in Spaces
    THEN RStrip(SubSeq(s, 1, Len(s) - 1)) ELSE s

\* str.strip()
strip(s) == RStrip(LStrip(s))

RECURSIVE WordEnd(_, _)
\* index of the last character of the run of non-space characters starting at p
WordEnd(s, p) == IF p < Len(s) /\ CharAt(s, p + 1) \notin Spaces THEN WordEnd(s, p + 1) ELSE p

RECURSIVE split(_)
\* str.split(): the maximal runs of non-space characters
split(s) ==
    LET t == LStrip(s) IN
    IF Len(t) = 0 THEN <<>>
    ELSE LET e == WordEnd(t, 1) IN <<SubSeq(t, 1, e)>> \o split(SubSeq(t, e + 1, Len(t)))

RECURSIVE join(_, _)
\* sep.join(parts)
join(sep, parts) ==
    IF Len(parts) = 0 THEN ""
    ELSE IF Len(parts) = 1 THEN parts[1]
    ELSE parts[1] \o sep \o join(sep, Tail(parts))

\* sub in s
contains(s, sub) ==
    \E p \in 1..(Len(s) - Len(sub) + 1) : SubSeq(s, p, p + Len(sub) - 1) = sub

DigitVal(c) == CHOOSE d \in 0..9 : ToString(d) = c

RECURSIVE ParseInt(_)
\* the value of a string of decimal digits
ParseInt(s) ==
    IF Len(s) = 0 THEN 0
    ELSE 10 * ParseInt(SubSeq(s, 1, Len(s) - 1)) + DigitVal(CharAt(s, Len(s)))

(***************************************************************************)
(* Floats.  A float is kept as an exact fraction num/den in lowest terms   *)
(* with den a power of two (the operand sets below keep every quotient     *)
(* dyadic, so the fraction is the IEEE value).                             *)
(***************************************************************************)
RECURSIVE Gcd(_, _)
Gcd(a, b) == IF b = 0 THEN a ELSE Gcd(b, a % b)

Abs(n) == IF n < 0 THEN -n ELSE n

Float(n, d) ==
    LET g == Gcd(Abs(n), d) IN [type |-> "float", num |-> n \div g, den |-> d \div g]

\* float("<digits>")
float(s) == Float(ParseInt(s), 1)

NoneValue == [type |-> "NoneType"]

RECURSIVE FracDigits(_, _)
FracDigits(r, d) ==
    IF r = 0 THEN "" ELSE ToString((r * 10) \div d) \o FracDigits((r * 10) % d, d)

\* str(x) / f"{x}" of a float or of None
FloatStr(x) ==
    IF x.type = "NoneType" THEN "None"
    ELSE LET a == Abs(x.num)
             sign == IF x.num < 0 THEN "-" ELSE ""
         IN  IF a % x.den = 0
             THEN sign \o ToString(a \div x.den) \o ".0"
             ELSE sign \o ToString(a \div x.den) \o "." \o FracDigits(a % x.den, x.den)

(***************************************************************************)
(* Regular expressions: a pattern is a sequence of elements.               *)
(*   Lit(s)            the literal text s                                  *)
(*   Rep(c, min, g)    greedy repetition, at least min, of class c         *)
(*   Lazy(c, min, g)   lazy repetition, at least min, of class c           *)
(*   One(c, g)         one character of class c                            *)
(*   Opt(p)            (?:p)?                                              *)
(*   Alt(ps)           (?:p1|p2|...)                                       *)
(*   Word(ws, g)       (w1|w2|...) of literal words                        *)
(*   Eos               $                                                   *)
(* g is the number of the capturing group, 0 when the element is not       *)
(* captured.  Classes: d = \d, s = \s, w = \w, any = ., nq = [^'"],        *)
(* q = ['"], op = [+\-*/].                                                 *)
(***************************************************************************)
Lit(s) == [t |-> "lit", s |-> s]
Rep(c, min, g) == [t |-> "rep", c |-> c, min |-> min, greedy |-> TRUE, g |-> g]
Lazy(c, min, g) == [t |-> "rep", c |-> c, min |-> min, greedy |-> FALSE, g |-> g]
One(c, g) == [t |-> "one", c |-> c, g |-> g]
Opt(p) == [t |-> "opt", p |-> p]
Alt(ps) == [t |-> "alt", ps |-> ps]
Word(ws, g) == [t |-> "word", ws |-> ws, g |-> g]
Eos == [t |-> "eos"]

InClass(c, ch) ==
    CASE c = "d" -> ch \in Digits
      [] c = "s" -> ch \in Spaces
      [] c = "w" -> ch \in WordChars
      [] c = "any" -> ch # "\n"
      [] c = "nq" -> ch \notin Quotes
      [] c = "q" -> ch \in Quotes
      [] c = "op" -> ch \in OpChars

RECURSIVE RunLen(_, _, _)
\* the number of consecutive characters of class c from position p on
RunLen(c, s, p) ==
    IF p <= Len(s) /\ InClass(c, CharAt(s, p)) THEN 1 + RunLen(c, s, p + 1) ELSE 0

NoCaps == <<"", "", "">>
SetCap(caps, g, v) == IF g = 0 THEN caps ELSE [caps EXCEPT ![g] = v]
NoMatch == [ok |-> FALSE, start |-> 0, end |-> 0, caps |-> NoCaps]

HasAt(s, p, w) == p + Len(w) - 1 <= Len(s) /\ SubSeq(s, p, p + Len(w) - 1) = w

RECURSIVE Match(_, _, _, _)
RECURSIVE TryRep(_, _, _, _, _, _, _)
RECURSIVE TryAlt(_, _, _, _, _, _)
RECURSIVE TryWord(_, _, _, _, _, _)

\* the match of pattern pat anchored at position p that the backtracking
\* search finds first; end is the position after the last matched character
Match(pat, s, p, caps) ==
    IF Len(pat) = 0 THEN [ok |-> TRUE, start |-> p, end |-> p, caps |-> caps]
    ELSE LET e == Head(pat)
             rest == Tail(pat)
         IN  CASE e.t = "lit" ->
                    IF HasAt(s, p, e.s) THEN Match(rest, s, p + Len(e.s), caps) ELSE NoMatch
               [] e.t = "one" ->
                    IF p <= Len(s) /\ InClass(e.c, CharAt(s, p))
                    THEN Match(rest, s, p + 1, SetCap(caps, e.g, CharAt(s, p)))
                    ELSE NoMatch
               [] e.t = "rep" ->
                    LET hi == RunLen(e.c, s, p)
                    IN  TryRep(e, rest, s, p, IF e.greedy THEN hi ELSE e.min, hi, caps)
               [] e.t = "opt" ->
                    LET r == Match(e.p \o rest, s, p, caps)
                    IN  IF r.ok THEN r ELSE Match(rest, s, p, caps)
               [] e.t = "alt" -> TryAlt(e.ps, 1, rest, s, p, caps)
               [] e.t = "word" -> TryWord(e, 1, rest, s, p, caps)
               [] e.t = "eos" ->
                    IF p = Len(s) + 1 \/ (p = Len(s) /\ CharAt(s, p) = "\n")
                    THEN Match(rest, s, p, caps) ELSE NoMatch

TryRep(e, rest, s, p, n, hi, caps) ==
    IF n < e.min \/ n > hi THEN NoMatch
    ELSE LET r == Match(rest, s, p + n, SetCap(caps, e.g, SubSeq(s, p, p + n - 1)))
         IN  IF r.ok THEN r
             ELSE TryRep(e, rest, s, p, IF e.greedy THEN n - 1 ELSE n + 1, hi, caps)

TryAlt(ps, k, rest, s, p, caps) ==
    IF k > Len(ps) THEN NoMatch
    ELSE LET r == Match(ps[k] \o rest, s, p, caps)
         IN  IF r.ok THEN r ELSE TryAlt(ps, k + 1, rest, s, p, caps)

TryWord(e, k, rest, s, p, caps) ==
    IF k > Len(e.ws) THEN NoMatch
    ELSE LET r == IF HasAt(s, p, e.ws[k])
                  THEN Match(rest, s, p + Len(e.ws[k]), SetCap(caps, e.g, e.ws[k]))
                  ELSE NoMatch
         IN  IF r.ok THEN r ELSE TryWord(e, k + 1, rest, s, p, caps)

RECURSIVE search(_, _, _)
\* re.search(pat, s) from position p on: the leftmost match
search(pat, s, p) ==
    IF p > Len(s) + 1 THEN NoMatch
    ELSE LET r == Match(pat, s, p, NoCaps)
         IN  IF r.ok THEN [r EXCEPT !.start = p] ELSE search(pat, s, p + 1)

RECURSIVE finditer(_, _, _)
\* re.finditer(pat, s): the non-overlapping matches, left to right
finditer(pat, s, p) ==
    LET r == search(pat, s, p)
    IN  IF ~r.ok THEN <<>>
        ELSE <<r>> \o finditer(pat, s, IF r.end = r.start THEN r.end + 1 ELSE r.end)


(***************************************************************************)
(* level2/calculator_tool.py                                               *)
(***************************************************************************)
FAdd(a, b) == Float(a.num * b.den + b.num * a.den, a.den * b.den)
FSub(a, b) == Float(a.num * b.den - b.num * a.den, a.den * b.den)
FMul(a, b) == Float(a.num * b.num, a.den * b.den)
FDiv(a, b) ==
    IF b.num < 0 THEN Float(-(a.num * b.den), a.den * (-b.num))
    ELSE Float(a.num * b.den, a.den * b.num)

\* str(e) of the TypeError raised by  a <op> b  when an operand is None
TypeErrorText(op, a, b) ==
    "unsupported operand type(s) for " \o op \o ": '" \o a.type \o "' and '" \o b.type \o "'"

\* str(e) of the UnboundLocalError raised by reading operation_name before
\* it is assigned; the wording depends on the interpreter version
UnboundLocalTexts ==
    {"cannot access local variable 'operation_name' where it is not associated with a value",
     "local variable 'operation_name' referenced before assignment"}

CalcFailure(err, operation, operand1, operand2) ==
    [success |-> FALSE, error |-> err, operation |-> operation,
     operand1 |-> operand1, operand2 |-> operand2]

CalcSuccess(result, operation_name, operation, operand1, operand2) ==
    [success |-> TRUE, result |-> result, operation |-> operation_name,
     operand1 |-> operand1, operand2 |-> operand2,
     expression |-> FloatStr(operand1) \o " " \o operation \o " " \o FloatStr(operand2)
                    \o " = " \o FloatStr(result)]

\* CalculatorTool.calculate; ule is the text of the UnboundLocalError of
\* this interpreter
calculate(operation, operand1, operand2, ule) ==
    LET bad == operand1.type = "NoneType" \/ operand2.type = "NoneType"
        typeError == CalcFailure(TypeErrorText(operation, operand1, operand2),
                                 operation, operand1, operand2)
    IN  CASE operation = "+" ->
               IF bad THEN typeError
               ELSE CalcSuccess(FAdd(operand1, operand2), "addition", operation, operand1, operand2)
          [] operation = "-" ->
               IF bad THEN typeError
               ELSE CalcSuccess(FSub(operand1, operand2), "subtraction", operation, operand1, operand2)
          [] operation = "*" ->
               IF bad THEN typeError
               ELSE CalcSuccess(FMul(operand1, operand2), "multiplication", operation, operand1, operand2)
          [] operation = "/" ->
               IF operand2.type = "float" /\ operand2.num = 0
               THEN \* the failure dict reads operation_name, which is not yet
                    \* assigned: UnboundLocalError, caught by the except clause
                    CalcFailure(ule, operation, operand1, operand2)
               ELSE IF bad THEN typeError
               ELSE CalcSuccess(FDiv(operand1, operand2), "division", operation, operand1, operand2)
          [] OTHER ->
               CalcFailure("Unsupported operation: " \o operation, operation, operand1, operand2)

(***************************************************************************)
(* level3/translator_tool.py                                               *)
(***************************************************************************)
translation_dict ==
    "good morning" :> "Guten Morgen" @@ "good afternoon" :> "Guten Tag" @@
    "good evening" :> "Guten Abend" @@ "good night" :> "Gute Nacht" @@
    "hello" :> "Hallo" @@ "hi" :> "Hallo" @@ "goodbye" :> "Auf Wiedersehen" @@
    "thank you" :> "Danke" @@ "please" :> "Bitte" @@ "yes" :> "Ja" @@ "no" :> "Nein" @@
    "sunshine" :> "Sonnenschein" @@ "have a nice day" :> "Einen schönen Tag noch" @@
    "how are you" :> "Wie geht es dir" @@ "i am fine" :> "Mir geht es gut" @@
    "welcome" :> "Willkommen" @@ "excuse me" :> "Entschuldigung" @@
    "sorry" :> "Entschuldigung" @@ "water" :> "Wasser" @@ "bread" :> "Brot" @@
    "house" :> "Haus" @@ "car" :> "Auto" @@ "book" :> "Buch" @@ "friend" :> "Freund" @@
    "family" :> "Familie" @@ "work" :> "Arbeit" @@ "school" :> "Schule" @@
    "time" :> "Zeit" @@ "day" :> "Tag" @@ "night" :> "Nacht" @@ "morning" :> "Morgen" @@
    "afternoon" :> "Nachmittag" @@ "evening" :> "Abend" @@ "week" :> "Woche" @@
    "month" :> "Monat" @@ "year" :> "Jahr" @@ "today" :> "Heute" @@
    "tomorrow" :> "Morgen" @@ "yesterday" :> "Gestern" @@ "big" :> "Groß" @@
    "small" :> "Klein" @@ "good" :> "Gut" @@ "bad" :> "Schlecht" @@
    "beautiful" :> "Schön" @@ "ugly" :> "Hässlich" @@ "hot" :> "Heiß" @@
    "cold" :> "Kalt" @@ "new" :> "Neu" @@ "old" :> "Alt" @@ "young" :> "Jung" @@
    "happy" :> "Glücklich" @@ "sad" :> "Traurig" @@ "angry" :> "Wütend" @@
    "tired" :> "Müde" @@ "hungry" :> "Hungrig" @@ "thirsty" :> "Durstig" @@
    "love" :> "Liebe" @@ "hate" :> "Hass" @@ "like" :> "Gefallen" @@
    "want" :> "Wollen" @@ "need" :> "Brauchen" @@ "can" :> "Können" @@
    "must" :> "Müssen" @@ "should" :> "Sollten" @@ "will" :> "Werden" @@
    "would" :> "Würden" @@ "could" :> "Könnten" @@ "may" :> "Dürfen" @@
    "might" :> "Könnten"

WS == Rep("s", 1, 0)
Quoted == <<One("q", 0), Rep("nq", 1, 1), One("q", 0)>>

translation_patterns ==
    << <<Lit("translate"), WS>> \o Quoted \o <<WS, Lit("into"), WS, Lit("german")>>,
       <<Lit("translate"), WS>> \o Quoted \o <<WS, Lit("to"), WS, Lit("german")>>,
       Quoted \o <<WS, Lit("in"), WS, Lit("german")>>,
       <<Lit("how"), WS, Lit("do"), WS, Lit("you"), WS, Lit("say"), WS>> \o Quoted
           \o <<WS, Lit("in"), WS, Lit("german")>>,
       <<Lit("german"), WS, Lit("for"), WS>> \o Quoted,
       <<Lit("what"), WS, Lit("is"), WS>> \o Quoted \o <<WS, Lit("in"), WS, Lit("german")>> >>

RECURSIVE FirstSearch(_, _, _)
\* the first pattern, in list order, that re.search finds in s
FirstSearch(patterns, k, s) ==
    IF k > Len(patterns) THEN NoMatch
    ELSE LET m == search(patterns[k], s, 1)
         IN  IF m.ok THEN m ELSE FirstSearch(patterns, k + 1, s)

\* TranslatorTool.detect_translation_request: <<>> is None
detect_translation_request(text) ==
    LET text_lower == lower(text)
        m == FirstSearch(translation_patterns, 1, text_lower)
    IN  IF m.ok
        THEN <<[english_text |-> strip(m.caps[1]), target_language |-> "german",
                original_text |-> text]>>
        ELSE <<>>

RECURSIVE TranslateWords(_)
TranslateWords(words) ==
    IF Len(words) = 0 THEN <<>>
    ELSE LET word == Head(words)
         IN  <<IF word \in DOMAIN translation_dict THEN translation_dict[word]
                ELSE "[" \o word \o "]">> \o TranslateWords(Tail(words))

\* TranslatorTool.translate
translate(english_text) ==
    LET english_lower == strip(lower(english_text))
        translated_words == TranslateWords(split(english_lower))
    IN  IF english_lower \in DOMAIN translation_dict
        THEN [success |-> TRUE, english_text |-> english_text,
              german_translation |-> translation_dict[english_lower],
              confidence |-> "high"]
        ELSE IF Len(translated_words) > 0
        THEN [success |-> TRUE, english_text |-> english_text,
              german_translation |-> join(" ", translated_words),
              confidence |-> "partial",
              note |-> "Some words may not be accurately translated"]
        ELSE [success |-> FALSE, english_text |-> english_text,
              error |-> "Translation not available for this text",
              suggestion |-> "Try a simpler phrase or common words"]

(***************************************************************************)
(* level3/full_agent.py: TaskStep and the extraction passes                *)
(***************************************************************************)
\* tool_type of a step built without one (Python None)
NoToolType == "<None>"

\* TaskStep.__init__
TaskStep(description, tool_type, parameters) ==
    [description |-> description, tool_type |-> tool_type, parameters |-> parameters,
     result |-> <<>>, completed |-> FALSE, error |-> <<>>]

Number == Rep("d", 1, 0)
SP == Rep("s", 0, 0)
Num(g) == Rep("d", 1, g)

add_patterns ==
    << <<Lit("add"), WS, Num(1), WS, Lit("and"), WS, Num(2)>>,
       <<Num(1), SP, Lit("+"), SP, Num(2)>>,
       <<Num(1), WS, Lit("plus"), WS, Num(2)>> >>

multiply_patterns ==
    << <<Lit("multiply"), WS, Num(1), WS, Lit("and"), WS, Num(2)>>,
       <<Num(1), SP, Lit("*"), SP, Num(2)>>,
       <<Num(1), WS, Lit("times"), WS, Num(2)>> >>

RECURSIVE MathMatches(_, _, _, _)
\* one dict per match of re.finditer(pattern, text.lower())
MathMatches(matches, k, operation, sign) ==
    IF k > Len(matches) THEN <<>>
    ELSE LET match == matches[k]
         IN  <<[operation |-> operation,
                operand1 |-> float(match.caps[1]),
                operand2 |-> float(match.caps[2]),
                expression |-> match.caps[1] \o " " \o sign \o " " \o match.caps[2]]>>
             \o MathMatches(matches, k + 1, operation, sign)

RECURSIVE MathPass(_, _, _, _, _)
\* for pattern in patterns: for match in finditer: operations.append(...)
MathPass(patterns, k, text, operation, sign) ==
    IF k > Len(patterns) THEN <<>>
    ELSE MathMatches(finditer(patterns[k], lower(text), 1), 1, operation, sign)
         \o MathPass(patterns, k + 1, text, operation, sign)

\* extract_math_operations with a third loop, for the division sign
extract_math_operations_with_division(text) ==
    MathPass(add_patterns, 1, text, "+", "+") \o MathPass(multiply_patterns, 1, text, "*", "×")
    \o MathPass(<< <<Num(1), SP, Lit("/"), SP, Num(2)>> >>, 1, text, "/", "/")

\* extract_math_operations with the multiplication loop run before the addition loop
extract_math_operations_multiply_first(text) ==
    MathPass(multiply_patterns, 1, text, "*", "×") \o MathPass(add_patterns, 1, text, "+", "+")

\* FullAgent.extract_math_operations
extract_math_operations(text) ==
    MathPass(add_patterns, 1, text, "+", "+") \o MathPass(multiply_patterns, 1, text, "*", "×")

Until == Alt(<< <<WS, Lit("and"), WS>>, <<WS, Lit("then"), WS>>, <<Eos>> >>)

knowledge_patterns ==
    << <<Lit("tell"), WS, Lit("me"), WS, Lazy("any", 1, 1), Until>>,
       <<Lit("what"), WS, Lit("is"), WS, Opt(<<Lit("the"), WS>>), Lazy("any", 1, 1), Until>>,
       <<Lit("which"), WS, Lazy("any", 1, 1), Until>>,
       <<Lit("capital"), WS, Lit("of"), WS, Rep("w", 1, 1)>>,
       <<Lit("distance"), WS, Lit("between"), WS, Lazy("any", 1, 1), Until>> >>

\* "Avoid very short matches"
MinQuestionLen == 3

RECURSIVE KnowledgeMatches(_, _)
KnowledgeMatches(matches, k) ==
    IF k > Len(matches) THEN <<>>
    ELSE LET question == strip(matches[k].caps[1])
         IN  (IF Len(question) > 0 /\ Len(question) > MinQuestionLen
              THEN <<question>> ELSE <<>>)
             \o KnowledgeMatches(matches, k + 1)

RECURSIVE KnowledgePass(_, _, _)
KnowledgePass(patterns, k, text) ==
    IF k > Len(patterns) THEN <<>>
    ELSE KnowledgeMatches(finditer(patterns[k], lower(text), 1), 1)
         \o KnowledgePass(patterns, k + 1, text)

\* FullAgent.extract_knowledge_questions
extract_knowledge_questions(text) == KnowledgePass(knowledge_patterns, 1, text)

TranslatorSteps(user_query) ==
    LET translation_request == detect_translation_request(user_query)
    IN  IF Len(translation_request) > 0
        THEN <<TaskStep("Translate '" \o translation_request[1].english_text \o "' to German",
                        "translator",
                        [english_text |-> translation_request[1].english_text])>>
        ELSE <<>>

CalculatorSteps(user_query) ==
    LET math_operations == extract_math_operations(user_query)
    IN  [k \in 1..Len(math_operations) |->
            TaskStep("Calculate " \o math_operations[k].expression, "calculator",
                     math_operations[k])]

KnowledgeSteps(user_query) ==
    LET knowledge_questions == extract_knowledge_questions(user_query)
    IN  [k \in 1..Len(knowledge_questions) |->
            TaskStep("Answer: " \o knowledge_questions[k], "llm",
                     [question |-> knowledge_questions[k]])]

FallbackStep(user_query) ==
    TaskStep("Process query: " \o user_query, "llm", [question |-> user_query])

\* analyze_query without its last branch: nothing is added when no pass matched
analyze_query_no_fallback(user_query) ==
    TranslatorSteps(user_query) \o CalculatorSteps(user_query) \o KnowledgeSteps(user_query)

\* analyze_query appending the knowledge steps before the tool steps
analyze_query_knowledge_first(user_query) ==
    LET steps == KnowledgeSteps(user_query) \o TranslatorSteps(user_query)
                 \o CalculatorSteps(user_query)
    IN  IF Len(steps) = 0 THEN <<FallbackStep(user_query)>> ELSE steps

\* FullAgent.analyze_query
analyze_query(user_query) ==
    LET steps == TranslatorSteps(user_query) \o CalculatorSteps(user_query)
                 \o KnowledgeSteps(user_query)
    IN  IF Len(steps) = 0 THEN <<FallbackStep(user_query)>> ELSE steps

(***************************************************************************)
(* level3/full_agent.py: execution and synthesis                           *)
(***************************************************************************)
NL == "\n"

\* FullAgent.fallback_response
fallback_response(question) ==
    LET question_lower == lower(question)
    IN  IF contains(question_lower, "capital") /\ contains(question_lower, "italy")
        THEN join(NL, <<"Step-by-step answer about Italy's capital:",
               "",
               "1. **Question Analysis**: You're asking about the capital of Italy",
               "2. **Geographic Knowledge**: Italy is a country in Southern Europe",
               "3. **Capital City**: The capital of Italy is Rome",
               "4. **Historical Significance**: Rome has been Italy's capital since 1871",
               "5. **Cultural Importance**: Rome is known as the \"Eternal City\" and is famous for its ancient history, art, and architecture">>)
        ELSE IF contains(question_lower, "distance") /\ contains(question_lower, "earth")
                /\ contains(question_lower, "mars")
        THEN join(NL, <<"Step-by-step answer about Earth-Mars distance:",
               "",
               "1. **Question Analysis**: You're asking about the distance between Earth and Mars",
               "2. **Orbital Dynamics**: Both planets orbit the sun at different speeds and distances",
               "3. **Variable Distance**: The distance varies due to their elliptical orbits",
               "4. **Range**: The distance ranges from about 54.6 million km (closest) to 401 million km (farthest)",
               "5. **Average Distance**: On average, Earth and Mars are about 225 million km apart",
               "6. **Current Context**: The exact distance depends on the current positions in their orbits">>)
        ELSE join(NL, <<"Step-by-step response to: " \o question,
               "",
               "1. **Question Analysis**: I understand your question about " \o question,
               "2. **Knowledge Application**: I would need to access current information",
               "3. **Structured Response**: I would provide a clear, step-by-step answer",
               "4. **Formatting**: I would use bullet points and clear structure",
               "5. **Note**: In fallback mode, I have limited knowledge. For best results, configure an API key.">>)

\* What the remote backend does with one request: it answers with a text or
\* the client library raises an exception with a message.
BackendReplies == {"1. Rome is the capital of Italy."}
BackendErrors == {"Connection error."}
BackendOutcomes ==
    {[raised |-> FALSE, text |-> t] : t \in BackendReplies}
    \cup {[raised |-> TRUE, text |-> t] : t \in BackendErrors}

\* FullAgent.call_openai
call_openai(prompt, backend) ==
    IF backend.raised THEN "Error calling OpenAI API: " \o backend.text ELSE backend.text

\* FullAgent.call_gemini
call_gemini(prompt, backend) ==
    IF backend.raised THEN "Error calling Gemini API: " \o backend.text ELSE backend.text

\* FullAgent.create_prompt
create_prompt(question) ==
    join(NL, <<"You are a helpful AI assistant that ALWAYS thinks step-by-step and provides structured, clear responses.",
               "",
               "IMPORTANT RULES:",
               "1. ALWAYS break down your response into clear, numbered steps",
               "2. Use bullet points and formatting to make your response easy to read",
               "3. Be thorough but concise in your explanations",
               "",
               "User Question: " \o question,
               "",
               "Please provide your step-by-step response:">>)

\* str(e) of the KeyError raised by step.parameters[key]
KeyErrorText(key) == "'" \o key \o "'"

\* the first of the keys that step.parameters lacks, <<>> when none is missing
RECURSIVE MissingKey(_, _)
MissingKey(parameters, keys) ==
    IF Len(keys) = 0 THEN <<>>
    ELSE IF Head(keys) \notin DOMAIN parameters THEN <<Head(keys)>>
    ELSE MissingKey(parameters, Tail(keys))

\* an except clause that reports the error and records nothing on the step
StepRaisedUnrecorded(step, text) ==
    [step |-> step, ret |-> [error |-> text]]

\* the except clause of execute_step
StepRaised(step, text) ==
    [step |-> [step EXCEPT !.error = <<text>>, !.completed = FALSE],
     ret |-> [error |-> text]]

\* the success path of execute_step recording a failure result of the tool
\* as a failure of the step
StepDoneUnlessToolFailed(step, result) ==
    IF "success" \in DOMAIN result /\ ~result.success
    THEN [step |-> [step EXCEPT !.error = <<result.error>>, !.completed = FALSE],
          ret |-> result]
    ELSE [step |-> [step EXCEPT !.result = <<result>>, !.completed = TRUE], ret |-> result]

\* the success path of execute_step emptying the parameters it has used
StepDoneDroppingParameters(step, result) ==
    [step |-> [step EXCEPT !.result = <<result>>, !.completed = TRUE, !.parameters = <<>>],
     ret |-> result]

StepDone(step, result) ==
    [step |-> [step EXCEPT !.result = <<result>>, !.completed = TRUE], ret |-> result]

\* FullAgent.execute_step: the step after the call and the value returned.
\* llm_type is the agent's mode, backend what the remote backend does if it
\* is called, ule the interpreter's UnboundLocalError text.
execute_step(step, llm_type, backend, ule) ==
    CASE step.tool_type = "calculator" ->
           LET missing == MissingKey(step.parameters, <<"operation", "operand1", "operand2">>)
           IN  IF Len(missing) > 0 THEN StepRaised(step, KeyErrorText(missing[1]))
               ELSE StepDone(step, calculate(step.parameters.operation,
                                             step.parameters.operand1,
                                             step.parameters.operand2, ule))
      [] step.tool_type = "translator" ->
           IF "english_text" \notin DOMAIN step.parameters
           THEN StepRaised(step, KeyErrorText("english_text"))
           ELSE StepDone(step, translate(step.parameters.english_text))
      [] step.tool_type = "llm" ->
           IF "question" \notin DOMAIN step.parameters
           THEN StepRaised(step, KeyErrorText("question"))
           ELSE LET prompt == create_prompt(step.parameters.question)
                    result == CASE llm_type = "openai" -> call_openai(prompt, backend)
                                [] llm_type = "gemini" -> call_gemini(prompt, backend)
                                [] OTHER -> fallback_response(step.parameters.question)
                IN  StepDone(step, [response |-> result])
      [] OTHER ->
           [step |-> [step EXCEPT !.error = <<"Unknown tool type">>, !.completed = FALSE],
            ret |-> [error |-> "Unknown tool type"]]

\* dict.get(key) used as a condition: the key is present and its value true
GetTrue(d, key) == key \in DOMAIN d /\ d[key]

Returned(text) == [raised |-> FALSE, text |-> text]
\* step.result is None and .get is called on it
NoneHasNoGet == [raised |-> TRUE, text |-> "'NoneType' object has no attribute 'get'"]

\* the single-step branch of synthesize_results
SynthesizeSingle(step) ==
    IF step.tool_type = "calculator" /\ Len(step.result) = 0 THEN NoneHasNoGet
    ELSE IF step.tool_type = "calculator" /\ GetTrue(step.result[1], "success")
    THEN Returned(join(NL, <<"Step-by-step response:",
             "",
             "1. **Question Analysis**: You asked for a mathematical calculation",
             "2. **Tool Usage**: I used the calculator tool",
             "3. **Calculation**: " \o step.result[1].expression,
             "4. **Result**: The answer is " \o FloatStr(step.result[1].result)>>))
    ELSE IF step.tool_type = "translator" /\ Len(step.result) = 0 THEN NoneHasNoGet
    ELSE IF step.tool_type = "translator" /\ GetTrue(step.result[1], "success")
    THEN Returned(join(NL, <<"Step-by-step response:",
             "",
             "1. **Question Analysis**: You asked for a translation",
             "2. **Tool Usage**: I used the translator tool",
             "3. **Translation**: '" \o step.result[1].english_text \o "' → '"
                 \o step.result[1].german_translation \o "'",
             "4. **Result**: The German translation is '"
                 \o step.result[1].german_translation \o "'">>))
    ELSE IF step.tool_type = "llm"
    THEN IF Len(step.result) = 0 THEN NoneHasNoGet
         ELSE Returned(IF "response" \in DOMAIN step.result[1] THEN step.result[1].response
                       ELSE "No response available")
    ELSE Returned("Error in processing: "
                  \o (IF Len(step.error) > 0 /\ Len(step.error[1]) > 0 THEN step.error[1]
                      ELSE "Unknown error"))

\* f"{step.error}"
ErrorStr(error) == IF Len(error) = 0 THEN "None" ELSE error[1]

\* the loop body of the multi-step branch leaving out the steps that did not complete
StepPartsSkipFailed(i, step) ==
    IF step.completed
    THEN <<NL \o ToString(i) \o ". **" \o step.description \o "**",
           "   Result: " \o step.description>>
    ELSE <<>>

\* the lines that the loop body of the multi-step branch appends for step i
StepParts(i, step) ==
    <<NL \o ToString(i) \o ". **" \o step.description \o "**">>
    \o (IF step.completed
        THEN IF step.tool_type = "calculator" /\ GetTrue(step.result[1], "success")
             THEN <<"   Result: " \o step.result[1].expression>>
             ELSE IF step.tool_type = "translator" /\ GetTrue(step.result[1], "success")
             THEN <<"   Result: '" \o step.result[1].german_translation \o "'">>
             ELSE IF step.tool_type = "llm"
             THEN <<"   Result: " \o (IF "response" \in DOMAIN step.result[1]
                                     THEN step.result[1].response ELSE "No response")>>
             ELSE <<>>
        ELSE <<"   Error: " \o ErrorStr(step.error)>>)

RECURSIVE AllStepParts(_, _)
AllStepParts(steps, i) ==
    IF i > Len(steps) THEN <<>> ELSE StepParts(i, steps[i]) \o AllStepParts(steps, i + 1)

\* len([s for s in steps if s.completed])
CompletedCount(steps) == Cardinality({k \in 1..Len(steps) : steps[k].completed})

SummaryLine(steps) ==
    NL \o "**Summary**: Successfully completed " \o ToString(CompletedCount(steps))
       \o " out of " \o ToString(Len(steps)) \o " tasks."

\* response_parts of the multi-step branch of synthesize_results
response_parts(steps) ==
    <<"Step-by-step multi-task response:">> \o AllStepParts(steps, 1) \o <<SummaryLine(steps)>>

\* FullAgent.synthesize_results: the text returned, or the exception raised
synthesize_results(steps, original_query) ==
    IF Len(steps) = 1 THEN SynthesizeSingle(steps[1])
    ELSE Returned(join(NL, response_parts(steps)))

(***************************************************************************)
(* Level 2: CalculatorTool.detect_math_operation / process_query and       *)
(* level2/chatbot_with_tool.py                                             *)
(***************************************************************************)
\* CalculatorTool.supported_operations
supported_operations ==
    [add |-> "+", plus |-> "+", sum |-> "+", multiply |-> "*", times |-> "*",
     subtract |-> "-", minus |-> "-", divide |-> "/", division |-> "/"]

\* the patterns of detect_math_operation with three groups (X, op, Y)
operator_patterns ==
    << <<Lit("what"), WS, Lit("is"), WS, Num(1), SP, One("op", 2), SP, Num(3)>>,
       <<Num(1), WS, Word(<<"plus", "minus", "times", "multiply", "divide">>, 2), WS, Num(3)>> >>

\* the patterns of detect_math_operation with two groups (X, Y)
operand_patterns ==
    << <<Lit("add"), WS, Num(1), WS, Lit("and"), WS, Num(2)>>,
       <<Lit("multiply"), WS, Num(1), WS, Lit("and"), WS, Num(2)>>,
       <<Num(1), SP, Lit("+"), SP, Num(2)>>,
       <<Num(1), SP, Lit("*"), SP, Num(2)>>,
       <<Num(1), SP, Lit("-"), SP, Num(2)>>,
       <<Num(1), SP, Lit("/"), SP, Num(2)>> >>

\* CalculatorTool.detect_math_operation: <<>> is None.  The patterns are
\* tried in list order; the two with three groups come first.
detect_math_operation(text) ==
    LET text_lower == lower(text)
        m3 == FirstSearch(operator_patterns, 1, text_lower)
        m2 == FirstSearch(operand_patterns, 1, text_lower)
    IN  IF m3.ok
        THEN <<[operation |-> IF m3.caps[2] \in DOMAIN supported_operations
                              THEN supported_operations[m3.caps[2]] ELSE m3.caps[2],
                operand1 |-> float(m3.caps[1]),
                operand2 |-> float(m3.caps[3]),
                original_text |-> text]>>
        ELSE IF m2.ok
        THEN <<[operation |-> IF contains(text_lower, "add") THEN "+"
                              ELSE IF contains(text_lower, "multiply") THEN "*"
                              ELSE "+",
                operand1 |-> float(m2.caps[1]),
                operand2 |-> float(m2.caps[2]),
                original_text |-> text]>>
        ELSE <<>>

\* CalculatorTool.process_query: <<>> is None
calculator_process_query(text, ule) ==
    LET math_operation == detect_math_operation(text)
    IN  IF Len(math_operation) > 0
        THEN <<[original_query |-> text]
               @@ calculate(math_operation[1].operation, math_operation[1].operand1,
                            math_operation[1].operand2, ule)>>
        ELSE <<>>

non_math_indicators ==
    {"capital", "country", "city", "what is", "tell me", "explain",
     "why", "how", "when", "where", "who"}

\* ChatbotWithTool.detect_mixed_query
detect_mixed_query(text) ==
    /\ Len(detect_math_operation(text)) > 0
    /\ \E indicator \in non_math_indicators : contains(lower(text), indicator)

\* the text process_query of the chatbot returns for a mixed query (its
\* bullet characters, U+2022, are written * here)
MixedQueryMessage ==
    join(NL, <<"Step-by-step response to mixed query:",
               "",
               "1. **Query Analysis**: Your question contains both mathematical operations and general knowledge questions",
               "2. **Level 2 Limitation**: I can only handle one type of operation at a time",
               "3. **Recommendation**: Please ask your questions separately:",
               "   * First, ask the mathematical question",
               "   * Then, ask the general knowledge question",
               "4. **Example**: Instead of \"Multiply 9 and 8, and also tell me the capital of Japan\"",
               "   * Ask: \"What is 9 times 8?\"",
               "   * Then ask: \"What is the capital of Japan?\"",
               "5. **Future Enhancement**: Multi-step processing will be available in Level 3",
               "",
               "This ensures accurate and complete responses to each part of your question.">>)

\* ChatbotWithTool.fallback_response; tool_result is <<>> for None
chatbot_fallback_response(user_question, tool_result) ==
    IF Len(tool_result) > 0 /\ tool_result[1].success
    THEN join(NL, <<"Step-by-step response with tool result:",
                    "",
                    "1. **Question Analysis**: You asked: \"" \o user_question \o "\"",
                    "2. **Tool Usage**: I used the calculator tool to perform the calculation",
                    "3. **Calculation Result**: " \o tool_result[1].expression,
                    "4. **Explanation**: The calculator tool performed " \o tool_result[1].operation
                        \o " on " \o FloatStr(tool_result[1].operand1) \o " and "
                        \o FloatStr(tool_result[1].operand2),
                    "5. **Final Answer**: The result is " \o FloatStr(tool_result[1].result)>>)
    ELSE IF contains(lower(user_question), "capital") /\ contains(lower(user_question), "france")
    THEN join(NL, <<"Step-by-step answer about France's capital:",
                    "",
                    "1. **Question Analysis**: You're asking about the capital of France",
                    "2. **Geographic Knowledge**: France is a country in Europe",
                    "3. **Capital City**: The capital of France is Paris",
                    "4. **Historical Significance**: Paris has been France's capital since 987 CE",
                    "5. **Cultural Importance**: Paris is known as the \"City of Light\" and is famous for its culture, art, and architecture">>)
    ELSE IF contains(lower(user_question), "capital") /\ contains(lower(user_question), "japan")
    THEN join(NL, <<"Step-by-step answer about Japan's capital:",
                    "",
                    "1. **Question Analysis**: You're asking about the capital of Japan",
                    "2. **Geographic Knowledge**: Japan is an island nation in Asia",
                    "3. **Capital City**: The capital of Japan is Tokyo",
                    "4. **Historical Context**: Tokyo became the capital in 1868, replacing Kyoto",
                    "5. **Modern Significance**: Tokyo is one of the world's largest and most populous cities">>)
    ELSE join(NL, <<"Step-by-step response:",
                    "",
                    "1. **Question Analysis**: I understand your question",
                    "2. **Knowledge Application**: I would need to access current information",
                    "3. **Structured Response**: I would provide a clear, step-by-step answer",
                    "4. **Formatting**: I would use bullet points and clear structure",
                    "5. **Note**: In fallback mode, I have limited knowledge. For best results, configure an API key.">>)

\* no call of the chatbot has been made
NoCall ==
    [query |-> "", math_operation |-> <<>>, mixed |-> FALSE, tool_result |-> <<>>,
     backend |-> <<>>, response |-> ""]

\* ChatbotWithTool.process_query in mode type: what it detected, the tool
\* result the prompt was built with, the backend outcome if the backend was
\* called, and the response returned
chatbot_process_query(user_question, type, backend, ule) ==
    IF detect_mixed_query(user_question)
    THEN [query |-> user_question, math_operation |-> detect_math_operation(user_question),
          mixed |-> TRUE, tool_result |-> <<>>, backend |-> <<>>,
          response |-> MixedQueryMessage]
    ELSE LET math_result == calculator_process_query(user_question, ule)
         IN  [query |-> user_question,
              math_operation |-> detect_math_operation(user_question),
              mixed |-> FALSE,
              tool_result |-> math_result,
              backend |-> IF type \in {"openai", "gemini"} THEN <<backend>> ELSE <<>>,
              response |-> CASE type = "openai" -> call_openai("", backend)
                             [] type = "gemini" -> call_gemini("", backend)
                             [] OTHER -> chatbot_fallback_response(user_question, math_result)]

(***************************************************************************)
(* Inputs                                                                  *)
(***************************************************************************)
\* the most fragments a composed query is made of
MaxFrags == 2
\* the most steps of a trace handed to execute_step / synthesize_results
MaxTraceLen == 2
\* the most queries one run of the loop handles
MaxQueries == 2

Fragments ==
    {"translate 'Hi' to german", "'Good Day' in German", "add 2 and 2", "3 * 4",
     "8 / 2", "What is the", "capital of Italy", "and"}

Examples ==
    {"Translate 'Good Morning' into German and then multiply 5 and 6.",
     "Translate \"Sunshine\" into German.",
     "Add 10 and 20, then translate \"Have a nice day\" into German.",
     "Add 2 and 2 and multiply 3 and 3.",
     "What is the distance between Earth and Mars?",
     "Translate 'Zzz' into German",
     "German for ' '",
     "9 minus 3 and divide 8 by 0 and 7 - 2 and 6 / 0",
     "Translate ' ' into German and add 2 and 2",
     "Tell me the capital of Japan then add 1 and 2",
     "hello there"}

\* the queries process_query is called with
Queries ==
    Examples \cup {join(" ", fs) : fs \in UNION {[1..n -> Fragments] : n \in 0..MaxFrags}}

\* what the user types at the prompt of the run loop
RunInputs ==
    {"Translate 'Good Morning' into German and then multiply 5 and 6.",
     " Tell me a joke ",
     "hello there"}
QuitWords == {"quit", "exit", "q"}

Fl(n) == Float(n, 1)
CalcStep(operation, operand1, operand2) ==
    TaskStep("Calculate", "calculator",
             [operation |-> operation, operand1 |-> operand1, operand2 |-> operand2])

\* the steps a caller hands to execute_step directly
StepPool ==
    {CalcStep("+", Fl(2), Fl(2)), CalcStep("*", Fl(5), Fl(6)), CalcStep("-", Fl(2), Fl(4)),
     CalcStep("/", Fl(1), Fl(4)), CalcStep("/", Fl(4), Fl(0)), CalcStep("/", NoneValue, Fl(0)),
     CalcStep("^", Fl(2), Fl(2)), CalcStep("+", NoneValue, Fl(2)), CalcStep("/", Fl(4), NoneValue),
     TaskStep("Calculate", "calculator", <<>>),
     TaskStep("Translate 'Good Morning' to German", "translator", [english_text |-> "Good Morning"]),
     TaskStep("Translate 'good Zzz' to German", "translator", [english_text |-> "good Zzz"]),
     TaskStep("Translate 'Zzz' to German", "translator", [english_text |-> "Zzz"]),
     TaskStep("Translate '' to German", "translator", [english_text |-> ""]),
     TaskStep("Translate", "translator", <<>>),
     TaskStep("Answer: capital of italy", "llm", [question |-> "capital of italy"]),
     TaskStep("Answer", "llm", <<>>),
     TaskStep("Process", NoToolType, [question |-> "hello"]),
     TaskStep("Search the web", "search", <<>>)}

Traces == UNION {[1..n -> StepPool] : n \in 1..MaxTraceLen}

LLMTypes == {"openai", "gemini", "fallback"}

(***************************************************************************)
(* State                                                                   *)
(***************************************************************************)
VARIABLES
    pc,                    \* where control is: "input" (the prompt of run), "idle"
                           \* (a caller about to call the agent), "execute" (the
                           \* loop of process_query), "returned", "done",
                           \* "answered" (the Level 2 chatbot has answered)
    llm_type,              \* FullAgent.llm_type, set by setup_llm
    conversation_history,  \* FullAgent.conversation_history
    user_input,            \* the query being handled
    steps,                 \* the list `steps` of process_query
    i,                     \* how many steps the execution loop has been through
    outcome,               \* <<>>, or <<r>> with r what process_query returned or raised
    executed,              \* history: for each call of execute_step, the index of
                           \* the step passed and what the backend did in it
    logged_steps,          \* the list `steps` of run, handed to log_interaction
    printed,               \* what the loop has shown the user since the last prompt
    log_file,              \* the entries of interaction_logs_level3.txt
    json_file,             \* ../logs/full_history.json
    turns,                 \* the number of queries the loop has taken
    level2                 \* the last call of the Level 2 chatbot: its query, what
                           \* it detected, the tool result and the response

vars == <<pc, llm_type, conversation_history, user_input, steps, i, outcome, executed,
          logged_steps, printed, log_file, json_file, turns, level2>>

agent == <<llm_type, conversation_history>>
files == <<log_file, json_file>>

\* full_history.json does not exist / holds no valid JSON / holds a list
Absent == [state |-> "absent", history |-> <<>>]
Corrupt == [state |-> "corrupt", history |-> <<>>]
Stored(history) == [state |-> "stored", history |-> history]

\* FullAgent.__init__ and setup_llm, before any query
InitAgent ==
    /\ llm_type \in LLMTypes
    /\ conversation_history = <<>>
    /\ user_input = ""
    /\ steps = <<>>
    /\ i = 0
    /\ outcome = <<>>
    /\ executed = <<>>
    /\ logged_steps = <<>>
    /\ printed = <<>>
    /\ log_file = <<>>
    /\ json_file = Absent
    /\ turns = 0
    /\ level2 = NoCall

\* main(): the agent is built and run() waits at the prompt
Init == InitAgent /\ pc = "input"

\* the agent is built and its methods are called by a caller
InitCall == InitAgent /\ pc = "idle"

(***************************************************************************)
(* process_query                                                           *)
(***************************************************************************)
\* the analysis of process_query made to depend on the queries handled before
BeginProcessAfterHistory(query) ==
    /\ user_input' = query
    /\ steps' = IF turns > 0 \/ Len(conversation_history) > 0
                THEN analyze_query(query) \o <<FallbackStep(query)>>
                ELSE analyze_query(query)
    /\ i' = 0
    /\ outcome' = <<>>
    /\ executed' = <<>>

\* process_query lines 344-347: the query is analysed, the loop is entered
BeginProcess(query) ==
    /\ user_input' = query
    /\ steps' = analyze_query(query)
    /\ i' = 0
    /\ outcome' = <<>>
    /\ executed' = <<>>

\* the backend is not called
NoBackend == [raised |-> FALSE, text |-> ""]

\* execute_step(step) sends a request to the remote backend
BackendCalled(step) ==
    /\ step.tool_type = "llm"
    /\ "question" \in DOMAIN step.parameters
    /\ llm_type \in {"openai", "gemini"}

\* calculate reaches the division-by-zero branch
DividesByZero(step) ==
    /\ step.tool_type = "calculator"
    /\ {"operation", "operand1", "operand2"} \subseteq DOMAIN step.parameters
    /\ step.parameters.operation = "/"
    /\ step.parameters.operand2 = Float(0, 1)

\* the execution loop leaving at the first step that does not complete
ExecuteStepBreakOnError ==
    /\ pc = "execute"
    /\ i < Len(steps)
    /\ \E backend \in IF BackendCalled(steps[i + 1]) THEN BackendOutcomes ELSE {NoBackend},
          ule \in UnboundLocalTexts :
          LET r == execute_step(steps[i + 1], llm_type, backend, ule).step
          IN  /\ steps' = [steps EXCEPT ![i + 1] = r]
              /\ executed' = Append(executed,
                                    [index |-> i + 1,
                                     backend |-> IF BackendCalled(steps[i + 1]) THEN <<backend>>
                                                 ELSE <<>>])
              /\ i' = IF r.completed THEN i + 1 ELSE Len(steps)
    /\ UNCHANGED <<pc, agent, user_input, outcome, logged_steps, printed, files, turns, level2>>

\* process_query lines 351-357: one iteration of the execution loop
ExecuteStep ==
    /\ pc = "execute"
    /\ i < Len(steps)
    /\ \E backend \in IF BackendCalled(steps[i + 1]) THEN BackendOutcomes ELSE {NoBackend},
          ule \in IF DividesByZero(steps[i + 1]) THEN UnboundLocalTexts
                  ELSE {CHOOSE t \in UnboundLocalTexts : TRUE} :
          /\ steps' = [steps EXCEPT
                          ![i + 1] = execute_step(steps[i + 1], llm_type, backend, ule).step]
          /\ executed' = Append(executed,
                                [index |-> i + 1,
                                 backend |-> IF BackendCalled(steps[i + 1]) THEN <<backend>>
                                             ELSE <<>>])
    /\ i' = i + 1
    /\ UNCHANGED <<pc, agent, user_input, outcome, logged_steps, printed, files, turns, level2>>

\* process_query lines 359-363: the loop is over, the results are synthesized
Synthesize ==
    /\ pc = "execute"
    /\ i = Len(steps)
    /\ outcome' = <<synthesize_results(steps, user_input)>>
    /\ pc' = "returned"
    /\ UNCHANGED <<agent, user_input, steps, i, executed, logged_steps, printed, files, turns, level2>>

(***************************************************************************)
(* Direct calls                                                            *)
(***************************************************************************)
\* agent.process_query(query)
CallProcessQuery ==
    /\ pc = "idle"
    /\ \E query \in Queries : BeginProcess(query)
    /\ pc' = "execute"
    /\ UNCHANGED <<agent, logged_steps, printed, files, turns, level2>>

\* the execution loop of process_query (line 349 on) entered with a list of
\* steps of any make, as if analyze_query had returned it
EnterWithSteps ==
    /\ pc = "idle"
    /\ \E trace \in Traces : steps' = trace
    /\ user_input' = ""
    /\ i' = 0
    /\ outcome' = <<>>
    /\ executed' = <<>>
    /\ pc' = "execute"
    /\ UNCHANGED <<agent, logged_steps, printed, files, turns, level2>>

\* the caller has its answer; the locals of the call are gone
Return ==
    /\ pc = "returned"
    /\ pc' = "idle"
    /\ user_input' = ""
    /\ steps' = <<>>
    /\ i' = 0
    /\ outcome' = <<>>
    /\ executed' = <<>>
    /\ UNCHANGED <<agent, logged_steps, printed, files, turns, level2>>

(***************************************************************************)
(* run and log_interaction                                                 *)
(***************************************************************************)
\* the dict log_interaction builds for one step
StepDict(step) ==
    [description |-> step.description, tool_type |-> step.tool_type,
     parameters |-> step.parameters, completed |-> step.completed,
     result |-> step.result, error |-> step.error]

\* the dict `interaction` of log_interaction; the timestamp is the number
\* of the query
Interaction(timestamp, user_question, response, type, step_list) ==
    [timestamp |-> timestamp, user_question |-> user_question, response |-> response,
     llm_type |-> type,
     steps |-> [k \in 1..Len(step_list) |-> StepDict(step_list[k])]]

\* what log_interaction writes to the text log for one interaction
LogEntry(interaction) ==
    [timestamp |-> interaction.timestamp, llm_type |-> interaction.llm_type,
     user_question |-> interaction.user_question,
     steps_executed |-> Len(interaction.steps),
     steps |-> [k \in 1..Len(interaction.steps) |->
                   [description |-> interaction.steps[k].description,
                    tool_type |-> IF interaction.steps[k].tool_type = NoToolType THEN "none"
                                  ELSE interaction.steps[k].tool_type,
                    completed |-> interaction.steps[k].completed,
                    error |-> interaction.steps[k].error]],
     response |-> interaction.response]

\* what the file system does during one call of log_interaction
IOOutcomes == {"ok", "log_open_fails", "json_open_fails", "json_dump_fails"}

IOErrorText(io) ==
    CASE io = "log_open_fails" -> "[Errno 13] Permission denied: 'interaction_logs_level3.txt'"
      [] io = "json_open_fails" -> "[Errno 13] Permission denied: '../logs/full_history.json'"
      [] io = "json_dump_fails" -> "[Errno 28] No space left on device"
      [] OTHER -> ""

\* json.load of the history file, [] when it is missing or not valid JSON
LoadHistory(file) == IF file.state = "stored" THEN file.history ELSE <<>>

\* FullAgent.log_interaction under the file-system behaviour io: the new
\* agent and file state, and the text of the exception raised, if any
log_interaction(user_question, response, step_list, io, timestamp, history, log, json) ==
    LET interaction == Interaction(timestamp, user_question, response, llm_type, step_list)
    IN  [conversation_history |-> Append(history, interaction),
         log_file |-> IF io = "log_open_fails" THEN log ELSE Append(log, LogEntry(interaction)),
         json_file |-> CASE io = "ok" -> Stored(Append(LoadHistory(json), interaction))
                         [] io = "json_dump_fails" -> Corrupt
                         [] OTHER -> json,
         raised |-> IF io = "ok" THEN <<>> ELSE <<IOErrorText(io)>>]

AgentLine(text) == [kind |-> "agent", text |-> text]
ErrorLine(text) == [kind |-> "error", text |-> text]
GoodbyeLine == [kind |-> "goodbye", text |-> "Goodbye! Thanks for using the Level 3 agent."]

\* run lines 428-438: a query is read and process_query is entered
ReadQuery ==
    /\ pc = "input"
    /\ turns < MaxQueries
    /\ \E raw \in RunInputs :
          /\ lower(strip(raw)) \notin QuitWords
          /\ Len(strip(raw)) > 0
          /\ BeginProcess(strip(raw))
    /\ printed' = <<>>
    /\ turns' = turns + 1
    /\ pc' = "execute"
    /\ UNCHANGED <<agent, logged_steps, files, level2>>

\* run lines 434-435: an empty line is skipped
EmptyInput ==
    /\ pc = "input"
    /\ \E raw \in {"", "  "} : Len(strip(raw)) = 0
    /\ printed' = <<>>
    /\ UNCHANGED <<pc, agent, user_input, steps, i, outcome, executed, logged_steps, files, turns, level2>>

\* run lines 430-432 and 445-447: quit, exit, q or Ctrl-C end the loop
Quit ==
    /\ pc = "input"
    /\ \E raw \in {"quit", "Exit ", "q"} : lower(strip(raw)) \in QuitWords
    /\ printed' = <<GoodbyeLine>>
    /\ pc' = "done"
    /\ UNCHANGED <<agent, user_input, steps, i, outcome, executed, logged_steps, files, turns, level2>>

\* run lines 438-449: process_query is back; the response is printed, the
\* query is analysed again and logged; any exception is printed
FinishTurn ==
    /\ pc = "returned"
    /\ IF outcome[1].raised
       THEN /\ printed' = Append(printed, ErrorLine(outcome[1].text))
            /\ UNCHANGED <<agent, logged_steps, files>>
       ELSE \E io \in IOOutcomes, fresh \in {analyze_query(user_input)} :
              \E r \in {log_interaction(user_input, outcome[1].text, fresh, io, turns,
                                        conversation_history, log_file, json_file)} :
                 /\ logged_steps' = fresh
                 /\ conversation_history' = r.conversation_history
                 /\ log_file' = r.log_file
                 /\ json_file' = r.json_file
                 /\ printed' = <<AgentLine(outcome[1].text)>>
                               \o (IF Len(r.raised) > 0 THEN <<ErrorLine(r.raised[1])>> ELSE <<>>)
                 /\ UNCHANGED llm_type
    /\ pc' = "input"
    /\ UNCHANGED <<user_input, steps, i, outcome, executed, turns, level2>>

Next == ReadQuery \/ EmptyInput \/ Quit \/ ExecuteStep \/ Synthesize \/ FinishTurn

\* the agent driven by its run loop
Spec == Init /\ [][Next]_vars

NextQuery == CallProcessQuery \/ ExecuteStep \/ Synthesize \/ Return

\* process_query called directly, query after query
SpecQuery == InitCall /\ [][NextQuery]_vars

NextSteps == EnterWithSteps \/ ExecuteStep \/ Synthesize \/ Return

\* the execution loop and the synthesis of process_query on any list of steps
SpecSteps == InitCall /\ [][NextSteps]_vars

(***************************************************************************)
(* The outcome of a step                                                   *)
(***************************************************************************)
\* NotRun: the state TaskStep.__init__ leaves a step in
NotRun(step) == Len(step.result) = 0 /\ ~step.completed /\ Len(step.error) = 0

\* Failure(reason): not completed, with a reason recorded on the step
Failed(step) == ~step.completed /\ Len(step.error) > 0

\* the tool answered with a failure result (success = false)
ToolFailed(step) ==
    /\ Len(step.result) > 0
    /\ "success" \in DOMAIN step.result[1]
    /\ ~step.result[1].success

\* Success(payload): completed with a result that is not a tool failure
Succeeded(step) == step.completed /\ Len(step.result) > 0 /\ ~ToolFailed(step)

EndsWith(text, tail) ==
    Len(tail) <= Len(text) /\ SubSeq(text, Len(text) - Len(tail) + 1, Len(text)) = tail

\* the summary line of a multi-step response reporting c of n
Summary(c, n) ==
    "**Summary**: Successfully completed " \o ToString(c) \o " out of " \o ToString(n)
    \o " tasks."

SucceededCount(list) == Cardinality({k \in 1..Len(list) : Succeeded(list[k])})

\* control is just past the analysis of process_query
Analysed == pc = "execute" /\ i = 0

(***************************************************************************)
(* Claims                                                                  *)
(***************************************************************************)

\* C1 (SpecQuery): for every query, the empty one and pattern-free text
\* included, analyze_query returns at least one step; when the translation,
\* arithmetic and knowledge passes all produce nothing, it returns exactly
\* one step, for the knowledge answerer ("llm"), whose parameter is the
\* whole query as given.
C1_ExtractNonEmptyWithFallback ==
    Analysed =>
        /\ Len(steps) >= 1
        /\ (/\ Len(detect_translation_request(user_input)) = 0
            /\ Len(extract_math_operations(user_input)) = 0
            /\ Len(extract_knowledge_questions(user_input)) = 0)
           => /\ Len(steps) = 1
              /\ steps[1].tool_type = "llm"
              /\ steps[1].parameters = [question |-> user_input]
              /\ NotRun(steps[1])

\* C1 witness: the empty query has been analysed into the one fallback step
C1_Witness ==
    /\ Analysed
    /\ user_input = ""
    /\ Len(steps) = 1
    /\ steps[1].tool_type = "llm"
    /\ steps[1].parameters = [question |-> ""]

\* C2 (SpecSteps): the steps are executed strictly in list order, one call
\* of execute_step each, and when the loop is left every step of the list
\* has been executed, whatever the outcome of the steps before it.
C2_StrictOrderContinueOnError ==
    /\ Len(executed) = i
    /\ \A k \in 1..Len(executed) : executed[k].index = k
    /\ pc \in {"execute", "returned"} =>
          \A k \in 1..Len(steps) : (k <= i) <=> ~NotRun(steps[k])
    /\ pc = "returned" => i = Len(steps)

\* C2 witness: the first step of two failed and the second was executed
\* after it and succeeded
C2_Witness ==
    /\ pc = "returned"
    /\ Len(steps) = 2
    /\ Failed(steps[1])
    /\ Succeeded(steps[2])
    /\ Len(executed) = 2 /\ executed[1].index = 1 /\ executed[2].index = 2

\* C3 (Spec), as claimed: when the loop has handled a query, every step
\* made for that query (the list of process_query and the list the loop
\* hands to log_interaction) has left the not-run state through exactly one
\* call of execute_step.
C3_EveryStepRunExactlyOnce ==
    (pc = "input" /\ turns > 0) =>
        /\ \A k \in 1..Len(steps) :
              /\ ~NotRun(steps[k])
              /\ Cardinality({n \in 1..Len(executed) : executed[n].index = k}) = 1
        /\ \A k \in 1..Len(logged_steps) : ~NotRun(logged_steps[k])

\* C4 (Spec), as claimed: the trace log_interaction records for a query is
\* the executed trace of that query, every step with the outcome execution
\* gave it.
C4_LoggedTraceIsExecutedTrace ==
    (pc = "input" /\ turns > 0 /\ Len(conversation_history) > 0) =>
        conversation_history[Len(conversation_history)].steps
            = [k \in 1..Len(steps) |-> StepDict(steps[k])]

\* C5 (SpecSteps), as claimed: synthesize_results returns a non-empty text
\* for every executed trace of one or more steps and never raises.
C5_SynthesisAlwaysReturnsText ==
    pc = "returned" => (~outcome[1].raised /\ Len(outcome[1].text) > 0)

\* C6 (SpecSteps), as claimed: in a trace of one translator and one
\* calculator step where the translator succeeded and the calculator did
\* not, the summary reports 1 out of 2.
C6_IsolationSummaryOneOfTwo ==
    (/\ pc = "returned"
     /\ Len(steps) = 2
     /\ \E t, c \in 1..2 :
           /\ steps[t].tool_type = "translator" /\ Succeeded(steps[t])
           /\ steps[c].tool_type = "calculator" /\ ~Succeeded(steps[c]))
    => (~outcome[1].raised /\ EndsWith(outcome[1].text, Summary(1, 2)))

\* C7 (SpecSteps), as claimed: the multi-step summary reports the number of
\* steps whose outcome is Success (a tool failure result is not counted)
\* out of the number of steps.
C7_SummaryCountsSuccesses ==
    (pc = "returned" /\ Len(steps) > 1) =>
        (~outcome[1].raised
         /\ EndsWith(outcome[1].text, Summary(SucceededCount(steps), Len(steps))))

\* C8 (SpecQuery), as claimed: a knowledge step during which the backend
\* call raised ends as Failure carrying the error's message.
C8_BackendErrorIsFailure ==
    \A n \in 1..Len(executed) :
        (Len(executed[n].backend) > 0 /\ executed[n].backend[1].raised) =>
            /\ Failed(steps[executed[n].index])
            /\ steps[executed[n].index].error = <<executed[n].backend[1].text>>

Numeric(x) == x.type = "float"

\* C9 (SpecSteps), as claimed: an executed calculator step that divides by
\* zero or has an operator outside + - * / is left in Failure; every other
\* calculator step (numeric operands) ends as Success with an expression
\* and a numeric result.
C9_CalculatorOutcome ==
    \A n \in 1..Len(executed) :
        LET step == steps[executed[n].index]
            p == step.parameters
        IN  (/\ step.tool_type = "calculator"
             /\ {"operation", "operand1", "operand2"} \subseteq DOMAIN p
             /\ Numeric(p.operand1) /\ Numeric(p.operand2))
            => IF (p.operation = "/" /\ p.operand2 = Float(0, 1))
                  \/ p.operation \notin {"+", "-", "*", "/"}
               THEN Failed(step)
               ELSE /\ Succeeded(step)
                    /\ {"expression", "result"} \subseteq DOMAIN step.result[1]
                    /\ Numeric(step.result[1].result)

\* some word of the phrase is in the translation table
SomeWordKnown(english_text) ==
    \E k \in 1..Len(split(strip(lower(english_text)))) :
        split(strip(lower(english_text)))[k] \in DOMAIN translation_dict

\* C10 (SpecSteps), as claimed: a phrase that is no dictionary entry and
\* has no word in the table translates to a failure (success = false), and
\* a partial success is returned only when some word matched.
C10_TotalMissIsFailure ==
    \A n \in 1..Len(executed) :
        LET step == steps[executed[n].index]
        IN  (step.tool_type = "translator" /\ "english_text" \in DOMAIN step.parameters)
            => LET text == step.parameters.english_text
                   direct == strip(lower(text)) \in DOMAIN translation_dict
               IN  /\ (~direct /\ ~SomeWordKnown(text)) => ToolFailed(step)
                   /\ (Succeeded(step) /\ step.result[1].confidence = "partial")
                      => SomeWordKnown(text)

\* C11 (SpecQuery), as claimed: the parameter values captured by the
\* extraction keep the casing typed: the phrase of the translator step and
\* the question fragment of every knowledge step occur in the query exactly
\* as written there.
C11_CapturedCasingPreserved ==
    Analysed =>
        \A k \in 1..Len(steps) :
            /\ steps[k].tool_type = "translator"
               => contains(user_input, steps[k].parameters.english_text)
            /\ steps[k].tool_type = "llm"
               => contains(user_input, steps[k].parameters.question)

DistanceQuery == "What is the distance between Earth and Mars?"

\* C12 (SpecQuery), as claimed: the query about the distance between Earth
\* and Mars is analysed into exactly one step, a knowledge step; without a
\* live backend the step succeeds with the offline text and the response
\* is that text, in the single-step format.
C12_DistanceQueryOneKnowledgeStep ==
    (user_input = DistanceQuery /\ pc \in {"execute", "returned"}) =>
        /\ Len(steps) = 1
        /\ steps[1].tool_type = "llm"
        /\ (pc = "returned" /\ llm_type = "fallback") =>
              /\ Succeeded(steps[1])
              /\ outcome = <<Returned(fallback_response(steps[1].parameters.question))>>

\* C13 (SpecQuery), as claimed: for every calculator step of a query the
\* description shows the expression with the operands as typed and the
\* multiplication sign, and the response shows that same expression
\* followed by " = " and the numeric result, as in "5 × 6 = 30.0".
C13_ExpressionShownAsTyped ==
    pc = "returned" =>
        \A k \in 1..Len(steps) :
            steps[k].tool_type = "calculator" =>
                /\ steps[k].description = "Calculate " \o steps[k].parameters.expression
                /\ steps[k].parameters.operation = "*"
                   => contains(steps[k].parameters.expression, " × ")
                /\ Succeeded(steps[k])
                /\ ~outcome[1].raised
                /\ contains(outcome[1].text,
                            steps[k].parameters.expression \o " = "
                            \o FloatStr(steps[k].result[1].result))

\* the place of a tool type in the list analyze_query builds
PassOf(tool_type) ==
    CASE tool_type = "translator" -> 1
      [] tool_type = "calculator" -> 2
      [] OTHER -> 3

\* C14 (SpecQuery): the list analyze_query returns holds at most one
\* translator step, then the calculator steps, then the knowledge steps,
\* wherever the requests stand in the text.
C14_StepsInPassOrder ==
    Analysed =>
        /\ Cardinality({k \in 1..Len(steps) : steps[k].tool_type = "translator"}) <= 1
        /\ \A j, k \in 1..Len(steps) :
              j < k => PassOf(steps[j].tool_type) <= PassOf(steps[k].tool_type)
        /\ \A k \in 1..Len(steps) : steps[k].tool_type \in {"translator", "calculator", "llm"}

\* C14 witness: the addition is asked for before the translation and is
\* listed after it
C14_Witness ==
    /\ Analysed
    /\ user_input = "Add 10 and 20, then translate \"Have a nice day\" into German."
    /\ Len(steps) = 2
    /\ steps[1].tool_type = "translator"
    /\ steps[2].tool_type = "calculator"

\* queries holding one addition form and one multiplication form
OneAdditionOneMultiplication ==
    {"Add 2 and 2 and multiply 3 and 3.", "3 * 4 add 2 and 2", "add 2 and 2 3 * 4"}

\* the operators of the calculator steps of a list, in list order
CalculatorOperations(list) ==
    LET calc == SelectSeq(list, LAMBDA step : step.tool_type = "calculator")
    IN  [k \in 1..Len(calc) |-> calc[k].parameters.operation]

\* C15 (SpecQuery): among the calculator steps of one query every addition
\* precedes every multiplication, wherever they stand in the text; a query
\* with one addition form and one multiplication form gives exactly two
\* calculator steps, the addition first.
C15_AdditionBeforeMultiplication ==
    Analysed =>
        LET ops == CalculatorOperations(steps)
        IN  /\ \A j, k \in 1..Len(ops) : (j < k /\ ops[k] = "+") => ops[j] = "+"
            /\ \A k \in 1..Len(ops) : ops[k] \in {"+", "*"}
            /\ user_input \in OneAdditionOneMultiplication => ops = <<"+", "*">>

\* C15 witness: the multiplication is written first and listed second
C15_Witness ==
    /\ Analysed
    /\ user_input = "3 * 4 add 2 and 2"
    /\ Len(steps) = 2
    /\ steps[1].description = "Calculate 2 + 2"
    /\ steps[2].description = "Calculate 3 × 4"

\* what analyze_query decides for a list: descriptions, tool types and
\* parameters, in order
Plan(list) ==
    [k \in 1..Len(list) |->
        [description |-> list[k].description, tool_type |-> list[k].tool_type,
         parameters |-> list[k].parameters]]

\* the two analyses of the query of a turn (process_query line 344, run
\* line 442) agree, and so do the analyses of equal queries of different turns
SameQuerySamePlan ==
    /\ (pc = "input" /\ turns > 0) => Plan(logged_steps) = Plan(steps)
    /\ \A m, n \in 1..Len(conversation_history) :
          conversation_history[m].user_question = conversation_history[n].user_question
          => Plan(conversation_history[m].steps) = Plan(conversation_history[n].steps)

StartsAt(text, p, sub) ==
    p >= 1 /\ p + Len(sub) - 1 <= Len(text) /\ SubSeq(text, p, p + Len(sub) - 1) = sub

Occurrences(text, sub) == {p \in 1..Len(text) : StartsAt(text, p, sub)}

MultiHeader == "Step-by-step multi-task response:"
SummaryHead == NL \o NL \o "**Summary**: Successfully completed "
ResultLine == NL \o "   Result: "
ErrorLineHead == NL \o "   Error: "

\* the numbered line of entry k of the multi-step format
EntryHead(k, list) ==
    NL \o NL \o ToString(k) \o ". **" \o list[k].description \o "**"

\* the text in the multi-step format: header, entries, summary line
MultiFormat(text) ==
    /\ StartsAt(text, 1, MultiHeader \o NL \o NL \o "1. **")
    /\ Occurrences(text, SummaryHead) # {}
    /\ EndsWith(text, " tasks.")

\* the text in one of the single-step formats: no header of a task list
\* and no summary line
SingleFormat(text) ==
    /\ ~StartsAt(text, 1, MultiHeader)
    /\ Occurrences(text, SummaryHead) = {}

\* C17 (SpecSteps), as claimed: synthesize_results returns the single-step
\* text when the list has exactly one step and the numbered list ending
\* with the summary line when it has more; the text for a single
\* translator step that succeeded contains the German translation.
C17_FormatChosenByLength ==
    pc = "returned" =>
        /\ ~outcome[1].raised
        /\ IF Len(steps) = 1
           THEN /\ SingleFormat(outcome[1].text)
                /\ (steps[1].tool_type = "translator" /\ Succeeded(steps[1]))
                   => contains(outcome[1].text, steps[1].result[1].german_translation)
           ELSE MultiFormat(outcome[1].text)

\* C18 (SpecSteps), as claimed: in the multi-step format the numbered line
\* of every step is followed by a result line or by an error line with the
\* failure reason of the step.
C18_EntryHasResultOrError ==
    (pc = "returned" /\ Len(steps) > 1) =>
        /\ ~outcome[1].raised
        /\ \A k \in 1..Len(steps) :
              \E p \in Occurrences(outcome[1].text, EntryHead(k, steps)) :
                 LET q == p + Len(EntryHead(k, steps))
                 IN  \/ StartsAt(outcome[1].text, q, ResultLine)
                     \/ /\ Failed(steps[k])
                        /\ StartsAt(outcome[1].text, q, ErrorLineHead \o steps[k].error[1])

\* from position p on, the text holds the entries k.. of the list, in
\* order, each with at most a result or error line, and then the summary
RECURSIVE EntriesFrom(_, _, _, _)
EntriesFrom(text, list, k, p) ==
    /\ StartsAt(text, p, EntryHead(k, list))
    /\ LET q == p + Len(EntryHead(k, list))
           next == IF k = Len(list) THEN Occurrences(text, SummaryHead)
                   ELSE Occurrences(text, EntryHead(k + 1, list))
       IN  \E r \in next :
              /\ r >= q
              /\ r = q \/ StartsAt(text, q, ResultLine) \/ StartsAt(text, q, ErrorLineHead)
              /\ IF k = Len(list)
                 THEN SubSeq(text, r, Len(text))
                      = SummaryHead \o ToString(CompletedCount(list)) \o " out of "
                        \o ToString(Len(list)) \o " tasks."
                 ELSE EntriesFrom(text, list, k + 1, r)

\* the multi-step response lists the steps of the trace, one entry each,
\* in the order of the trace
ProjectsTrace ==
    (pc = "returned" /\ Len(steps) > 1) =>
        /\ ~outcome[1].raised
        /\ StartsAt(outcome[1].text, 1, MultiHeader)
        /\ EntriesFrom(outcome[1].text, steps, 1, Len(MultiHeader) + 1)

\* C19 (SpecSteps): in the multi-step format entry i carries the
\* description of step i of the list, there are as many entries as steps,
\* and synthesize_results changes no step and nothing of the agent or of
\* the files.
C19_SynthesisPureProjection ==
    /\ []ProjectsTrace
    /\ [][(pc = "execute" /\ pc' = "returned")
          => (steps' = steps /\ agent' = agent /\ files' = files)]_vars

\* C19 witness: a response for two steps, an answered knowledge step whose
\* text holds numbered lines of its own and a failed step
C19_Witness ==
    /\ pc = "returned"
    /\ Len(steps) = 2
    /\ steps[1].tool_type = "llm" /\ Succeeded(steps[1])
    /\ contains(steps[1].result[1].response, NL \o NL \o "1. **")
    /\ Failed(steps[2])
    /\ ~outcome[1].raised

\* the tool types execute_step has a branch for
KnownToolTypes == {"calculator", "translator", "llm"}

\* the parameters the branch of a tool type reads
RequiredParameters(tool_type) ==
    CASE tool_type = "calculator" -> {"operation", "operand1", "operand2"}
      [] tool_type = "translator" -> {"english_text"}
      [] tool_type = "llm" -> {"question"}
      [] OTHER -> {}

\* C20 (SpecSteps): execute_step returns for every step and the loop goes
\* on; a step it was called with is never left not-run; a step of an
\* unknown tool type is left in Failure with the reason "Unknown tool type"
\* and a step lacking a required parameter is left in Failure with a reason.
C20_ExecuteStepNeverRaises ==
    /\ Len(executed) = i
    /\ \A n \in 1..Len(executed) :
          LET step == steps[executed[n].index]
          IN  /\ ~NotRun(step)
              /\ step.completed \/ Failed(step)
              /\ step.tool_type \notin KnownToolTypes
                 => (Failed(step) /\ step.error = <<"Unknown tool type">>)
              /\ ~(RequiredParameters(step.tool_type) \subseteq DOMAIN step.parameters)
                 => (Failed(step) /\ Len(step.result) = 0)

\* C20 witness: a step of an unknown tool type and a step without its
\* parameters have been executed and the loop is over
C20_Witness ==
    /\ pc = "returned"
    /\ Len(steps) = 2
    /\ steps[1].tool_type = "search"
    /\ steps[1].error = <<"Unknown tool type">>
    /\ steps[2].tool_type = "calculator"
    /\ steps[2].parameters = <<>>
    /\ Failed(steps[2])

\* C21 (SpecSteps): a call of execute_step changes only the result,
\* completed and error of the step it is given: the description, tool type
\* and parameters of that step, every other step of the list, the agent's
\* llm_type and conversation history and the files stay as they were.
C21_ExecuteStepFrame ==
    [][(pc = "execute" /\ i' = i + 1) =>
          /\ Len(steps') = Len(steps)
          /\ Plan(steps') = Plan(steps)
          /\ \A k \in 1..Len(steps) : k # i + 1 => steps'[k] = steps[k]
          /\ ~NotRun(steps'[i + 1])
          /\ agent' = agent
          /\ files' = files]_vars

\* C21 witness: the loop has executed a step that succeeded and a step
\* that failed
C21_Witness ==
    /\ pc = "execute"
    /\ i = 2
    /\ Len(steps) = 2
    /\ Succeeded(steps[1])
    /\ Failed(steps[2])

\* C22 (Spec), as claimed: when log_interaction cannot write the text log
\* or the JSON history, the user is shown no error about it: after the
\* response of a query the loop is back at the prompt with nothing but the
\* response shown.
C22_LogFailureNotSurfaced ==
    (pc = "input" /\ turns > 0 /\ Len(outcome) > 0 /\ ~outcome[1].raised) =>
        \A k \in 1..Len(printed) : printed[k].kind # "error"

\* C23 (Spec), as claimed: between queries the agent holds nothing derived
\* from the queries it has handled: its fields are as __init__ left them.
C23_NoStateAcrossQueries ==
    pc = "input" => conversation_history = <<>>

\* C24 (SpecSteps), as claimed: a step without a tool type that carries a
\* question is executed like a knowledge step and ends as Success with the
\* response obtained (the offline text when there is no backend).
C24_NoneExecutedAsKnowledge ==
    \A n \in 1..Len(executed) :
        LET step == steps[executed[n].index]
        IN  (step.tool_type = NoToolType /\ "question" \in DOMAIN step.parameters) =>
                /\ Succeeded(step)
                /\ llm_type = "fallback"
                   => step.result = <<[response |-> fallback_response(step.parameters.question)]>>

\* queries that hold subtraction and division forms only
SubtractionDivisionOnly ==
    {"8 / 2", "8 / 2 8 / 2", "9 minus 3 and divide 8 by 0 and 7 - 2 and 6 / 0"}

\* C25 (SpecQuery): every calculator step analyze_query produces has the
\* operator + or *; a query with subtraction and division forms only gives
\* no calculator step; no step process_query hands to the calculator is a
\* division, by zero or not.
C25_OnlyAddAndMultiplyExtracted ==
    /\ \A k \in 1..Len(steps) :
          steps[k].tool_type = "calculator" =>
              /\ steps[k].parameters.operation \in {"+", "*"}
              /\ ~DividesByZero(steps[k])
    /\ (Analysed /\ user_input \in SubtractionDivisionOnly) =>
          \A k \in 1..Len(steps) : steps[k].tool_type # "calculator"

\* C25 witness: a division stands before an addition in the query and
\* only the addition became a step
C25_Witness ==
    /\ Analysed
    /\ user_input = "8 / 2 add 2 and 2"
    /\ Len(steps) = 1
    /\ steps[1].tool_type = "calculator"
    /\ steps[1].parameters.operation = "+"

(***************************************************************************)
(* The Level 2 chatbot called directly                                     *)
(***************************************************************************)
OperandPairs == {<<"12", "4">>, <<"8", "0">>}
OperatorSigns == {"+", "-", "*", "/"}
OperatorWords == {"plus", "minus", "times", "divide"}

\* the written forms of an operation on X and Y, each with the operator it
\* writes: "X op Y", "X word Y", both also asked as "What is ...?", and
\* "Add X and Y", "Multiply X and Y"
ArithmeticForms ==
    UNION {
        {[text |-> xy[1] \o " " \o sign \o " " \o xy[2], asked |-> FALSE, written |-> sign,
          operation |-> sign, x |-> xy[1], y |-> xy[2]] : sign \in OperatorSigns}
        \cup {[text |-> "What is " \o xy[1] \o " " \o sign \o " " \o xy[2] \o "?", asked |-> TRUE,
               written |-> sign, operation |-> sign, x |-> xy[1], y |-> xy[2]]
              : sign \in OperatorSigns}
        \cup {[text |-> xy[1] \o " " \o word \o " " \o xy[2], asked |-> FALSE, written |-> word,
               operation |-> supported_operations[word], x |-> xy[1], y |-> xy[2]]
              : word \in OperatorWords}
        \cup {[text |-> "What is " \o xy[1] \o " " \o word \o " " \o xy[2] \o "?", asked |-> TRUE,
               written |-> word, operation |-> supported_operations[word],
               x |-> xy[1], y |-> xy[2]] : word \in OperatorWords}
        \cup {[text |-> "Add " \o xy[1] \o " and " \o xy[2], asked |-> FALSE, written |-> "add",
               operation |-> "+", x |-> xy[1], y |-> xy[2]],
              [text |-> "Multiply " \o xy[1] \o " and " \o xy[2], asked |-> FALSE,
               written |-> "multiply", operation |-> "*", x |-> xy[1], y |-> xy[2]]}
        : xy \in OperandPairs}

MixedExample == "Multiply 9 and 8, and also tell me the capital of Japan."

\* the questions the Level 2 chatbot is asked
Level2Queries ==
    {f.text : f \in ArithmeticForms}
    \cup {MixedExample, "What is the capital of France?", "Which planet is the hottest?",
          "hello"}

\* chatbot.process_query(query)
AskChatbot ==
    /\ pc = "idle"
    /\ \E query \in Level2Queries, ule \in UnboundLocalTexts :
          \E backend \in IF llm_type \in {"openai", "gemini"} /\ ~detect_mixed_query(query)
                         THEN BackendOutcomes ELSE {NoBackend} :
             level2' = chatbot_process_query(query, llm_type, backend, ule)
    /\ pc' = "answered"
    /\ UNCHANGED <<agent, user_input, steps, i, outcome, executed, logged_steps, printed,
                   files, turns>>

\* the caller has the chatbot's answer
ChatbotReturn ==
    /\ pc = "answered"
    /\ pc' = "idle"
    /\ level2' = NoCall
    /\ UNCHANGED <<agent, user_input, steps, i, outcome, executed, logged_steps, printed,
                   files, turns>>

NextLevel2 == AskChatbot \/ ChatbotReturn

\* process_query of the Level 2 chatbot called question after question
SpecLevel2 == InitCall /\ [][NextLevel2]_vars

\* C26 (SpecLevel2), as claimed: the chatbot answers "What is X times Y?"
\* and "What is X + Y?" with the result of the calculator tool, and the
\* message that declines a mixed query is returned only for a query that
\* holds a math operation and a separate knowledge request.
C26_PureArithmeticUsesCalculator ==
    pc = "answered" =>
        /\ \A f \in ArithmeticForms :
              (f.text = level2.query /\ f.asked /\ f.written \in {"times", "+"}) =>
                  /\ ~level2.mixed
                  /\ level2.response # MixedQueryMessage
                  /\ Len(level2.tool_result) > 0
                  /\ level2.tool_result[1].success
                  /\ level2.tool_result[1].result
                     = (IF f.operation = "*" THEN FMul(float(f.x), float(f.y))
                        ELSE FAdd(float(f.x), float(f.y)))
        /\ level2.response = MixedQueryMessage => level2.query = MixedExample

\* C27 (SpecLevel2), as claimed: for every written form of an operation on
\* X and Y, with a sign + - * / (asked with "What is" or not) or with a
\* word, detect_math_operation returns the operator written and the
\* operands X and Y in order.
C27_DetectsOperatorWritten ==
    pc = "answered" =>
        \A f \in ArithmeticForms :
            f.text = level2.query =>
                level2.math_operation
                = <<[operation |-> f.operation, operand1 |-> float(f.x),
                     operand2 |-> float(f.y), original_text |-> f.text]>>

\* the call made divides by zero: the question holds a division whose
\* second operand is 0 and the calculator was called with it
DivisionByZeroCall ==
    /\ pc = "answered"
    /\ Len(level2.math_operation) > 0
    /\ level2.math_operation[1].operation = "/"
    /\ level2.math_operation[1].operand2 = float("0")
    /\ Len(level2.tool_result) > 0

\* C28 (SpecLevel2), as claimed: calculate("/", a, 0) returns a failure
\* (success false, no numeric result) whose error is "Division by zero is
\* not allowed".
C28_DivisionByZeroMessage ==
    DivisionByZeroCall =>
        /\ ~level2.tool_result[1].success
        /\ "result" \notin DOMAIN level2.tool_result[1]
        /\ level2.tool_result[1].error = "Division by zero is not allowed"

\* the interactions the JSON history file holds
JsonHistory == LoadHistory(json_file)

\* C29 (Spec), as claimed: a call of log_interaction leaves every
\* interaction that was in the JSON history file in it, in order, followed
\* by the interaction of the query just answered.
C29_JsonHistoryAppendOnly ==
    [][(pc = "returned" /\ ~outcome[1].raised)
          => /\ Len(JsonHistory') = Len(JsonHistory) + 1
             /\ SubSeq(JsonHistory', 1, Len(JsonHistory)) = JsonHistory
             /\ JsonHistory'[Len(JsonHistory')].user_question = user_input]_vars

\* C30 (SpecQuery): every step of the plan analyze_query made that
\* process_query has executed is completed with no error recorded, in
\* every LLM mode and whatever the backend and the tools answered; a
\* multi-step response is returned, ends with the summary "N out of N"
\* and holds no "Error:" line.
C30_PlannedStepsAlwaysComplete ==
    /\ pc \in {"execute", "returned"} =>
          \A k \in 1..i : steps[k].completed /\ Len(steps[k].error) = 0
    /\ (pc = "returned" /\ Len(steps) > 1) =>
          /\ ~outcome[1].raised
          /\ EndsWith(outcome[1].text, NL \o Summary(Len(steps), Len(steps)))
          /\ Occurrences(outcome[1].text, ErrorLineHead) = {}

\* C30 witness: a multi-step response is returned for a plan in which a
\* tool answered with a failure or the backend call raised
C30_Witness ==
    /\ pc = "returned"
    /\ Len(steps) > 1
    /\ \/ \E k \in 1..Len(steps) : ToolFailed(steps[k]) /\ steps[k].completed
       \/ \E k \in 1..Len(steps) :
             /\ steps[k].tool_type = "llm"
             /\ steps[k].completed
             /\ StartsAt(steps[k].result[1].response, 1, "Error calling ")
    /\ EndsWith(outcome[1].text, Summary(Len(steps), Len(steps)))

====
